---- MODULE Spec2Model ----
(***************************************************************************)
(* Model of scripts/09_redes_neuronales.py: the dataset load, the three    *)
(* neural-network pipelines (entrenar_modelo_nn followed by                *)
(* predecir_escenarios) and the helper functions they call.                *)
(*                                                                         *)
(* Conventions.  Every cell of a table is an integer; a missing value is   *)
(* NaN.  Category values are integers too (10, 20, 30 stand for the three  *)
(* categories of a categorical target), so that the label of a class and   *)
(* its dense code are different numbers.  Real numbers are held exactly:   *)
(* a probability is a number of PUnits-ths, the column                     *)
(* indice_calidad_vivienda is held in quarter units (its median and its    *)
(* 0.75 quantile are then integers), a standardised value is held as the   *)
(* pair <<n*x - sum, n*sumsq - sum^2>>.                                    *)
(***************************************************************************)
EXTENDS Integers, Sequences, FiniteSets, TLC

VARIABLES
    existe,          \* which of the two dataset files exist (environment)
    contenido,       \* the table each file holds (environment)
    ruta_model_csv,  \* the path the script resolved, "" before
    df,              \* the loaded dataset
    pc,              \* position of the script
    modelo,          \* index of the model pipeline in progress, 0 before
    loc,             \* locals of entrenar_modelo_nn in progress
    info,            \* the dict entrenar_modelo_nn returned (info_nnX)
    predictors_arg,  \* argument predictors of predecir_escenarios
    escenarios,      \* argument escenarios_dict of predecir_escenarios
    df_esc,          \* result of construir_df_escenarios
    y_proba,         \* the output of model.predict in predecir_escenarios
    df_out,          \* the table predecir_escenarios exports
    artifacts,       \* files written under reports/redes_neuronales
    prep_fits,       \* per model: number of fits of its preprocessor
    clf_fits,        \* per model: number of calls of model.fit
    err              \* the exception that ended the run

vars == <<existe, contenido, ruta_model_csv, df, pc, modelo, loc, info,
          predictors_arg, escenarios, df_esc, y_proba, df_out,
          artifacts, prep_fits, clf_fits, err>>

---------------------------------------------------------------------------
(* Bounds of the model *)

\* rows of the full dataset file
MaxRows == 7
\* distinct values a target column of the generated dataset takes
MaxK == 3
\* a probability is p / PUnits with p in 0..PUnits
PUnits == 2
\* the missing value of the generated dataset is in one of its first rows
MaxNaRow == 2
\* scenarios of a dict handed to construir_df_escenarios on its own
MaxEsc == 2

(* Program constants *)

\* np.nan
NaN == -1
\* test_size=0.3, as TestSizeNum / TestSizeDen
TestSizeNum == 3
TestSizeDen == 10
\* validation_split=0.2, as ValSplitNum / ValSplitDen
ValSplitNum == 2
ValSplitDen == 10

---------------------------------------------------------------------------
(* Generic helpers *)

Min(a, b) == IF a < b THEN a ELSE b

Range(s) == {s[i] : i \in DOMAIN s}

RECURSIVE SumOver(_, _)
\* sum of f[x] for x in S
SumOver(S, f) ==
    IF S = {} THEN 0
    ELSE LET x == CHOOSE y \in S : TRUE
         IN  f[x] + SumOver(S \ {x}, f)

RECURSIVE SortedSeq(_)
\* the elements of a finite set of integers in increasing order
SortedSeq(S) ==
    IF S = {} THEN <<>>
    ELSE LET lo == CHOOSE x \in S : \A y \in S : x <= y
         IN  <<lo>> \o SortedSeq(S \ {lo})

\* position (1-based) of v in sequence s
IndexOf(s, v) == CHOOSE i \in DOMAIN s : s[i] = v

\* the sequence s restricted to the elements satisfying membership in S
SelectIn(s, S) == SelectSeq(s, LAMBDA c : c \in S)

SelectNotIn(s, S) == SelectSeq(s, LAMBDA c : c \notin S)

---------------------------------------------------------------------------
(* Section 0/1: paths and the dataset files *)

ruta_sample_csv == "data/output/modeling_dataset_sample.csv"
ruta_full_csv == "data/output/modeling_dataset.csv"

Rutas == {ruta_sample_csv, ruta_full_csv}

\* the columns the upstream preparation writes
Columnas ==
    <<"DEPARTAMENTO", "AREA", "PCV2", "PCV3", "PCV5", "n_personas",
      "agua_mejorada", "saneamiento_mejorado", "electricidad",
      "indice_calidad_vivienda", "indice_calidad_vivienda_cat",
      "n_emigrantes_cat", "cluster_k4">>

\* the value of column c in row i of a dataset whose targets take k values
ValorBase(c, i, k) ==
    CASE c = "DEPARTAMENTO" -> i
      [] c = "AREA" -> 1 + (i % 2)
      [] c = "PCV2" -> 1 + (i % 2)
      [] c = "PCV3" -> 1 + ((i + 1) % 2)
      [] c = "PCV5" -> 1 + (i % 3)
      [] c = "n_personas" -> 1 + (i % 4)
      [] c = "agua_mejorada" -> IF k = 1 THEN 1 ELSE i % 2
      [] c = "saneamiento_mejorado" -> (i + 1) % 2
      [] c = "electricidad" -> 1
      [] c = "indice_calidad_vivienda" -> 4 * (i % 3)
      [] c = "indice_calidad_vivienda_cat" -> 10 * (1 + (i % k))
      [] c = "n_emigrantes_cat" -> 5 + (i % Min(k, 2))
      [] c = "cluster_k4" -> 1 + (i % 4)

\* columns in which the generated dataset may hold one missing value
ColsNA == {"indice_calidad_vivienda_cat", "agua_mejorada", "n_personas"}

\* sets of columns the generated dataset may lack
Faltas ==
    {{"PCV3"}, {"n_personas"}, {"n_personas", "indice_calidad_vivienda"},
     {"DEPARTAMENTO"}}

NoCell == <<0, "">>

\* a dataset of n rows, k target values, one cell na missing (or NoCell),
\* without the columns of falta
Tabla(n, k, na, falta) ==
    [columns |-> SelectNotIn(Columnas, falta),
     rows |-> [i \in 1..n |->
                  [c \in Range(Columnas) \ falta |->
                      IF na = <<i, c>> THEN NaN ELSE ValorBase(c, i, k)]]]

\* the sampled variant of a dataset: its first half
Muestra(t) ==
    [columns |-> t.columns,
     rows |-> SubSeq(t.rows, 1, (Len(t.rows) + 1) \div 2)]

Tablas ==
    {Tabla(n, k, na, {}) :
        n \in 0..MaxRows, k \in 1..MaxK,
        na \in {NoCell} \cup ((1..MaxNaRow) \X ColsNA)}
    \cup
    {Tabla(n, k, NoCell, falta) :
        n \in 0..MaxRows, k \in 1..MaxK,
        falta \in Faltas}

NoTabla == [columns |-> <<>>, rows |-> <<>>]

---------------------------------------------------------------------------
(* Section 3-5: the three model configurations *)

Config ==
    << [model_id |-> "nn1_indice_calidad_vivienda_cat",
        target_col |-> "indice_calidad_vivienda_cat",
        predictors |-> <<"PCV2", "PCV3", "PCV5", "agua_mejorada",
                         "saneamiento_mejorado", "electricidad",
                         "AREA", "cluster_k4">>,
        numeric_features |-> <<"agua_mejorada", "saneamiento_mejorado",
                               "electricidad">>,
        categorical_features |-> <<"PCV2", "PCV3", "PCV5", "AREA",
                                   "cluster_k4">>],
       [model_id |-> "nn2_n_emigrantes_cat",
        target_col |-> "n_emigrantes_cat",
        predictors |-> <<"AREA", "indice_calidad_vivienda", "n_personas",
                         "cluster_k4">>,
        numeric_features |-> <<"indice_calidad_vivienda", "n_personas">>,
        categorical_features |-> <<"AREA", "cluster_k4">>],
       [model_id |-> "nn3_agua_mejorada",
        target_col |-> "agua_mejorada",
        predictors |-> <<"PCV2", "PCV3", "PCV5", "DEPARTAMENTO", "AREA",
                         "cluster_k4", "n_personas",
                         "indice_calidad_vivienda">>,
        numeric_features |-> <<"n_personas", "indice_calidad_vivienda">>,
        categorical_features |-> <<"PCV2", "PCV3", "PCV5", "DEPARTAMENTO",
                                   "AREA", "cluster_k4">>] >>

Modelos == DOMAIN Config

---------------------------------------------------------------------------
(* construir_preprocesador and the fitted ColumnTransformer *)

\* StandardScaler state of one numeric column: count, sum and sum of squares
\* of the fitted values (mean = sum/n, variance = (n*sumsq - sum^2)/n^2)
ScalerFit(valores) ==
    [n |-> Len(valores),
     sum |-> SumOver(DOMAIN valores, valores),
     sumsq |-> SumOver(DOMAIN valores, [i \in DOMAIN valores |-> valores[i] * valores[i]])]

\* the standardised value of x, NaN passing through
ScalerTransform(s, x) ==
    IF x = NaN THEN [nan |-> TRUE, num |-> 0, var |-> 0]
    ELSE [nan |-> FALSE, num |-> s.n * x - s.sum, var |-> s.n * s.sumsq - s.sum * s.sum]

\* OneHotEncoder(handle_unknown="ignore"): the categories of one column
OneHotFit(valores) == SortedSeq(Range(valores))

\* one indicator per fitted category; an unseen value gives all zeros
OneHotTransform(cats, x) == [j \in DOMAIN cats |-> IF cats[j] = x THEN 1 ELSE 0]

construir_preprocesador(numeric_features, categorical_features) ==
    [numeric_features |-> numeric_features,
     categorical_features |-> categorical_features,
     n_fits |-> 0,
     scaler |-> <<>>,
     categories |-> <<>>]

NoPrep == construir_preprocesador(<<>>, <<>>)

\* the rows of X (a function from row ids to rows) in id order, column c
ColumnaDe(X, c) ==
    LET ids == SortedSeq(DOMAIN X)
    IN  [i \in DOMAIN ids |-> X[ids[i]][c]]

PreprocessorApply(prep, X) ==
    [id \in DOMAIN X |->
        [num |-> [j \in DOMAIN prep.numeric_features |->
                     ScalerTransform(prep.scaler[j], X[id][prep.numeric_features[j]])],
         cat |-> [j \in DOMAIN prep.categorical_features |->
                     OneHotTransform(prep.categories[j], X[id][prep.categorical_features[j]])]]]

\* preprocessor.fit_transform(X): learns the parameters from X, then transforms
PreprocessorFitTransform(prep, X) ==
    LET fitted ==
            [prep EXCEPT
                !.n_fits = prep.n_fits + 1,
                !.scaler = [j \in DOMAIN prep.numeric_features |->
                               ScalerFit(ColumnaDe(X, prep.numeric_features[j]))],
                !.categories = [j \in DOMAIN prep.categorical_features |->
                                   OneHotFit(ColumnaDe(X, prep.categorical_features[j]))]]
    IN  [prep |-> fitted, X_proc |-> PreprocessorApply(fitted, X)]

\* a transform that fits again
PreprocessorTransformRefit(prep, X) == PreprocessorFitTransform(prep, X)

\* preprocessor.transform(X): applies the learned parameters
PreprocessorTransform(prep, X) ==
    [prep |-> prep, X_proc |-> PreprocessorApply(prep, X)]

\* X_train_proc.shape[1]
InputDim(prep) ==
    Len(prep.numeric_features)
    + SumOver(DOMAIN prep.categories, [j \in DOMAIN prep.categories |-> Len(prep.categories[j])])

---------------------------------------------------------------------------
(* construir_modelo_clasificacion *)

\* a builder without the binary branch
construir_modelo_clasificacion_softmax(input_dim, n_classes, model_name) ==
    [name |-> model_name,
     input_dim |-> input_dim,
     hidden |-> <<32, 16>>,
     n_classes |-> n_classes,
     units |-> n_classes,
     activation |-> "softmax",
     loss |-> "sparse_categorical_crossentropy"]

construir_modelo_clasificacion(input_dim, n_classes, model_name) ==
    [name |-> model_name,
     input_dim |-> input_dim,
     hidden |-> <<32, 16>>,
     n_classes |-> n_classes,
     units |-> IF n_classes = 2 THEN 1 ELSE n_classes,
     activation |-> IF n_classes = 2 THEN "sigmoid" ELSE "softmax",
     loss |-> IF n_classes = 2 THEN "binary_crossentropy"
              ELSE "sparse_categorical_crossentropy"]

NoModel == construir_modelo_clasificacion(0, 0, "")

---------------------------------------------------------------------------
(* train_test_split(X, y, test_size=0.3, random_state=1234, stratify=y) *)

\* ceil(test_size * n_samples)
NTest(n) == (TestSizeNum * n + TestSizeDen - 1) \div TestSizeDen

NTrain(n) == n - NTest(n)

Clases(y) == Range(y)

ClassCounts(y) == [c \in Clases(y) |-> Cardinality({i \in DOMAIN y : y[i] = c})]

\* the split raises ValueError: an empty train set, a class with one member,
\* or fewer train or test rows than classes
SplitFalla(y) ==
    LET n == Cardinality(DOMAIN y)
        k == Cardinality(Clases(y))
    IN  \/ NTrain(n) = 0
        \/ \E c \in Clases(y) : ClassCounts(y)[c] < 2
        \/ NTrain(n) < k
        \/ NTest(n) < k

\* the per-class numbers of drawn rows: the floor of the proportional share,
\* the rest handed out by largest remainder, ties broken at random
ApproximateMode(counts, n_draws) ==
    LET cs == DOMAIN counts
        total == SumOver(cs, counts)
        floored == [c \in cs |-> (counts[c] * n_draws) \div total]
        resto == [c \in cs |-> (counts[c] * n_draws) % total]
        need == n_draws - SumOver(cs, floored)
    IN  {[c \in cs |-> floored[c] + (IF c \in T THEN 1 ELSE 0)] :
            T \in {S \in SUBSET cs :
                      /\ Cardinality(S) = need
                      /\ \A c \in S : \A d \in cs \ S : resto[c] >= resto[d]}}

\* a shuffle without stratify: any n_train rows
SplitsSinEstratificar(y) ==
    LET ids == DOMAIN y
        n == Cardinality(ids)
    IN  {[train |-> tr, test |-> ids \ tr] :
            tr \in {S \in SUBSET ids : Cardinality(S) = NTrain(n)}}

\* the splits the shuffle may produce: per class the drawn number of train
\* rows, the remaining rows of the class in test
Splits(y) ==
    LET ids == DOMAIN y
        n == Cardinality(ids)
        allocs == ApproximateMode(ClassCounts(y), NTrain(n))
    IN  {[train |-> tr, test |-> ids \ tr] :
            tr \in {S \in SUBSET ids :
                       \E a \in allocs : \A c \in Clases(y) :
                           Cardinality({i \in S : y[i] = c}) = a[c]}}

---------------------------------------------------------------------------
(* Errors *)

NoError == [tipo |-> "", donde |-> "", nombres |-> <<>>, modelo |-> 0]

Raise(tipo, donde, nombres, m) ==
    [tipo |-> tipo, donde |-> donde, nombres |-> nombres, modelo |-> m]

\* the message of the FileNotFoundError of the dataset load
MensajeSinDataset ==
    <<"modeling_dataset_sample.csv", "modeling_dataset.csv", "data/output/",
      "06_preparacion_modelado.R">>

---------------------------------------------------------------------------
(* Section 1: dataset load *)

\* the full file tried first
ResolverRutaFullPrimero(ex) ==
    IF ex[ruta_full_csv] THEN ruta_full_csv
    ELSE IF ex[ruta_sample_csv] THEN ruta_sample_csv
    ELSE ""

\* the if / elif / else over the two paths; "" stands for the raise
ResolverRuta(ex) ==
    IF ex[ruta_sample_csv] THEN ruta_sample_csv
    ELSE IF ex[ruta_full_csv] THEN ruta_full_csv
    ELSE ""

---------------------------------------------------------------------------
(* entrenar_modelo_nn: the steps before the split *)

ColsNecesarias(m) == <<Config[m].target_col>> \o Config[m].predictors

\* only the first missing column
FaltantesPrimero(t, m) ==
    LET f == SelectNotIn(ColsNecesarias(m), Range(t.columns))
    IN  IF f = <<>> THEN <<>> ELSE <<f[1]>>

\* faltantes = [c for c in cols_necesarias if c not in df.columns]
Faltantes(t, m) == SelectNotIn(ColsNecesarias(m), Range(t.columns))

\* dropna on the target alone
DropNaSoloTarget(t, cols) == {i \in DOMAIN t.rows : t.rows[i][cols[1]] # NaN}

\* data_sub.dropna(subset=cols_necesarias): the ids of the rows kept
DropNa(t, cols) ==
    {i \in DOMAIN t.rows : \A c \in Range(cols) : t.rows[i][c] # NaN}

\* y_cat.cat.categories: the distinct target values, sorted
Categories(t, ids, col) == SortedSeq({t.rows[i][col] : i \in ids})

\* dict(enumerate(y_cat.cat.categories))
ClassMapping(cats) == [c \in 0..(Len(cats) - 1) |-> cats[c + 1]]

\* codes counted from 1
CodesDesdeUno(t, ids, col, cats) == [i \in ids |-> IndexOf(cats, t.rows[i][col])]

\* y_cat.cat.codes.values, by row id
Codes(t, ids, col, cats) == [i \in ids |-> IndexOf(cats, t.rows[i][col]) - 1]

\* data_sub[predictors] restricted to the rows of ids
XDe(t, ids, predictors) ==
    [i \in ids |-> [c \in Range(predictors) |-> t.rows[i][c]]]

NoLoc ==
    [data_sub |-> {}, class_mapping |-> <<>>, y |-> <<>>,
     train |-> {}, test |-> {},
     reportado |-> [completas |-> 0, entrenamiento |-> 0, prueba |-> 0],
     preprocessor |-> NoPrep, model |-> NoModel]

\* the locals of entrenar_modelo_nn after the split sp
LocTrasSplit(t, m, sp) ==
    LET ids == DropNa(t, ColsNecesarias(m))
        cats == Categories(t, ids, Config[m].target_col)
    IN  [NoLoc EXCEPT
            !.data_sub = ids,
            !.class_mapping = ClassMapping(cats),
            !.y = Codes(t, ids, Config[m].target_col, cats),
            !.train = sp.train,
            !.test = sp.test,
            !.reportado = [completas |-> Cardinality(ids),
                           entrenamiento |-> Cardinality(sp.train),
                           prueba |-> Cardinality(sp.test)]]

\* the target codes of the complete rows of model m
YDe(t, m) ==
    LET ids == DropNa(t, ColsNecesarias(m))
    IN  Codes(t, ids, Config[m].target_col,
              Categories(t, ids, Config[m].target_col))

\* the locals after the preprocessor was fitted on train, the test rows were
\* transformed and the classifier was built
LocTrasPreproceso(t, m, l) ==
    LET prep0 == construir_preprocesador(Config[m].numeric_features,
                                         Config[m].categorical_features)
        ft == PreprocessorFitTransform(prep0, XDe(t, l.train, Config[m].predictors))
        tt == PreprocessorTransform(ft.prep, XDe(t, l.test, Config[m].predictors))
        n_classes == Cardinality({l.y[i] : i \in l.train})
    IN  [l EXCEPT
            !.preprocessor = tt.prep,
            !.model = construir_modelo_clasificacion(
                          InputDim(ft.prep), n_classes, Config[m].model_id)]

\* model.fit(..., validation_split=0.2) raises ValueError when the split
\* leaves no training or no validation sample
ValidationSplitFalla(n) ==
    LET split_at == (n * (ValSplitDen - ValSplitNum)) \div ValSplitDen
    IN  split_at = 0 \/ split_at = n

\* the names of the files a model pipeline writes, in the order written
ArchivosDe(m) ==
    <<Config[m].model_id \o "_accuracy.png",
      Config[m].model_id \o "_loss.png",
      Config[m].model_id \o "_model.keras",
      Config[m].model_id \o "_predicciones_escenarios.csv">>

NoInfo == [model |-> NoModel, preprocessor |-> NoPrep, class_mapping |-> <<>>]

\* the entries of the returned dict the script reads afterwards
InfoDe(l) ==
    [model |-> l.model, preprocessor |-> l.preprocessor,
     class_mapping |-> l.class_mapping]

---------------------------------------------------------------------------
(* Sections 3-5: the scenario dicts the driver builds from df *)

\* df[col].dropna() as a sequence
SinNa(t, col) ==
    SelectSeq([i \in DOMAIN t.rows |-> t.rows[i][col]], LAMBDA v : v # NaN)

\* df[col].dropna().astype("category").cat.categories
Cats(t, col) == SortedSeq(Range(SinNa(t, col)))

\* whether s[i] of Python exists (i from 0, negative from the end)
EnRango(s, i) == IF i >= 0 THEN i < Len(s) ELSE (0 - i) <= Len(s)

\* s[i] of Python
Item(s, i) == IF i >= 0 THEN s[i + 1] ELSE s[Len(s) + 1 + i]

Ordenados(t, col) == SortSeq(SinNa(t, col), LAMBDA a, b : a < b)

\* df[col].max(), .min(), .median(), .quantile(0.75); NaN on no value
Maximo(t, col) ==
    LET s == Ordenados(t, col) IN IF s = <<>> THEN NaN ELSE s[Len(s)]

Minimo(t, col) ==
    LET s == Ordenados(t, col) IN IF s = <<>> THEN NaN ELSE s[1]

Mediana(t, col) ==
    LET s == Ordenados(t, col)
        n == Len(s)
    IN  IF n = 0 THEN NaN
        ELSE IF n % 2 = 1 THEN s[(n + 1) \div 2]
        ELSE (s[n \div 2] + s[n \div 2 + 1]) \div 2

\* linear interpolation at position 0.75 * (n - 1)
Cuantil75(t, col) ==
    LET s == Ordenados(t, col)
        n == Len(s)
        lo == (3 * (n - 1)) \div 4
        fr == (3 * (n - 1)) % 4
    IN  IF n = 0 THEN NaN
        ELSE IF fr = 0 THEN s[lo + 1]
        ELSE s[lo + 1] + (fr * (s[lo + 2] - s[lo + 1])) \div 4

\* the index expressions cat.categories[i] the dict literal of model m holds
AccesosDe(t, m) ==
    LET uno(c) == Min(1, Len(Cats(t, c)) - 1)
    IN  CASE m = 1 ->
               {<<c, i>> : c \in {"PCV2", "PCV3", "PCV5"}, i \in {0, -1}}
               \cup {<<c, uno(c)>> : c \in {"PCV2", "PCV3", "PCV5"}}
               \cup {<<"AREA", 0>>, <<"AREA", -1>>}
          [] m = 2 -> {<<"AREA", 0>>, <<"AREA", -1>>}
          [] m = 3 ->
               {<<c, i>> : c \in {"PCV2", "PCV3", "PCV5"}, i \in {0, -1, 1}}
               \cup {<<"DEPARTAMENTO", 0>>, <<"DEPARTAMENTO", -1>>,
                     <<"DEPARTAMENTO", 5>>}
               \cup {<<"AREA", 0>>, <<"AREA", -1>>}

\* building the dict literal raises IndexError
EscenariosFalla(t, m) ==
    \E a \in AccesosDe(t, m) : ~EnRango(Cats(t, a[1]), a[2])

Esc(nombre, valores) == [nombre |-> nombre, valores |-> valores]

\* escenarios_nn1, escenarios_nn2, escenarios_nn3
EscenariosDe(t, m) ==
    LET cat(c, i) == Item(Cats(t, c), i)
        uno(c) == Min(1, Len(Cats(t, c)) - 1)
    IN  CASE m = 1 ->
          <<Esc("esc_1_materiales_muy_precarios_sin_servicios",
                ("PCV2" :> cat("PCV2", 0)) @@ ("PCV3" :> cat("PCV3", 0))
                @@ ("PCV5" :> cat("PCV5", 0)) @@ ("agua_mejorada" :> 0)
                @@ ("saneamiento_mejorado" :> 0) @@ ("electricidad" :> 0)
                @@ ("AREA" :> cat("AREA", 0)) @@ ("cluster_k4" :> 1)),
            Esc("esc_2_materiales_intermedios_con_algunos_servicios",
                ("PCV2" :> cat("PCV2", uno("PCV2")))
                @@ ("PCV3" :> cat("PCV3", uno("PCV3")))
                @@ ("PCV5" :> cat("PCV5", uno("PCV5")))
                @@ ("agua_mejorada" :> 1)
                @@ ("saneamiento_mejorado" :> 0) @@ ("electricidad" :> 1)
                @@ ("AREA" :> cat("AREA", 0)) @@ ("cluster_k4" :> 2)),
            Esc("esc_3_materiales_buenos_con_todos_los_servicios",
                ("PCV2" :> cat("PCV2", -1)) @@ ("PCV3" :> cat("PCV3", -1))
                @@ ("PCV5" :> cat("PCV5", -1)) @@ ("agua_mejorada" :> 1)
                @@ ("saneamiento_mejorado" :> 1) @@ ("electricidad" :> 1)
                @@ ("AREA" :> cat("AREA", -1)) @@ ("cluster_k4" :> 3))>>
        [] m = 2 ->
          <<Esc("esc_1_hogar_pequeno_alta_calidad",
                ("AREA" :> cat("AREA", -1))
                @@ ("indice_calidad_vivienda" :> Maximo(t, "indice_calidad_vivienda"))
                @@ ("n_personas" :> 3) @@ ("cluster_k4" :> 1)),
            Esc("esc_2_hogar_grande_baja_calidad",
                ("AREA" :> cat("AREA", 0))
                @@ ("indice_calidad_vivienda" :> Minimo(t, "indice_calidad_vivienda"))
                @@ ("n_personas" :> 8) @@ ("cluster_k4" :> 2)),
            Esc("esc_3_hogar_mediano_calidad_media",
                ("AREA" :> cat("AREA", 0))
                @@ ("indice_calidad_vivienda" :> Mediana(t, "indice_calidad_vivienda"))
                @@ ("n_personas" :> 5) @@ ("cluster_k4" :> 3))>>
        [] m = 3 ->
          <<Esc("esc_1_vivienda_rural_precaria",
                ("PCV2" :> cat("PCV2", 0)) @@ ("PCV3" :> cat("PCV3", 0))
                @@ ("PCV5" :> cat("PCV5", 0))
                @@ ("DEPARTAMENTO" :> cat("DEPARTAMENTO", 0))
                @@ ("AREA" :> cat("AREA", 0)) @@ ("cluster_k4" :> 1)
                @@ ("n_personas" :> 7)
                @@ ("indice_calidad_vivienda" :> Minimo(t, "indice_calidad_vivienda"))),
            Esc("esc_2_vivienda_urbana_mejor_calidad",
                ("PCV2" :> cat("PCV2", -1)) @@ ("PCV3" :> cat("PCV3", -1))
                @@ ("PCV5" :> cat("PCV5", -1))
                @@ ("DEPARTAMENTO" :> cat("DEPARTAMENTO", -1))
                @@ ("AREA" :> cat("AREA", -1)) @@ ("cluster_k4" :> 3)
                @@ ("n_personas" :> 4)
                @@ ("indice_calidad_vivienda" :> Cuantil75(t, "indice_calidad_vivienda"))),
            Esc("esc_3_vivienda_intermedia",
                ("PCV2" :> cat("PCV2", 1)) @@ ("PCV3" :> cat("PCV3", 1))
                @@ ("PCV5" :> cat("PCV5", 1))
                @@ ("DEPARTAMENTO" :> cat("DEPARTAMENTO", 5))
                @@ ("AREA" :> cat("AREA", 0)) @@ ("cluster_k4" :> 2)
                @@ ("n_personas" :> 5)
                @@ ("indice_calidad_vivienda" :> Mediana(t, "indice_calidad_vivienda")))>>

---------------------------------------------------------------------------
(* construir_df_escenarios *)

\* valores.get(p, 0)
GetCero(valores, p) == IF p \in DOMAIN valores THEN valores[p] ELSE 0

\* valores.get(p, np.nan)
Get(valores, p) == IF p \in DOMAIN valores THEN valores[p] ELSE NaN

\* pd.DataFrame([])[cols] raises KeyError: a frame built from no row has no
\* column
ConstruirDfFalla(predictors, escenarios_dict) == escenarios_dict = <<>>

\* the dict is held as the sequence of its items, in insertion order
construir_df_escenarios(predictors, escenarios_dict) ==
    [columns |-> <<"escenario">> \o predictors,
     rows |-> [i \in DOMAIN escenarios_dict |->
                  [c \in {"escenario"} \cup Range(predictors) |->
                      IF c = "escenario" THEN escenarios_dict[i].nombre
                      ELSE Get(escenarios_dict[i].valores, c)]]]

---------------------------------------------------------------------------
(* predecir_escenarios *)

\* the rows model.predict may return for one input row: a sigmoid unit gives
\* any probability, a softmax layer a distribution over its units
Salidas(model) ==
    IF model.activation = "sigmoid" THEN {<<p>> : p \in 0..PUnits}
    ELSE {v \in [1..model.units -> 0..PUnits] : SumOver(DOMAIN v, v) = PUnits}

\* np.argmin in place of np.argmax
ArgMin(v) ==
    (CHOOSE i \in DOMAIN v :
        /\ \A j \in DOMAIN v : v[j] >= v[i]
        /\ \A j \in DOMAIN v : j < i => v[j] > v[i]) - 1

\* np.argmax: the first index (from 0) of the largest entry
ArgMax(v) ==
    (CHOOSE i \in DOMAIN v :
        /\ \A j \in DOMAIN v : v[j] <= v[i]
        /\ \A j \in DOMAIN v : j < i => v[j] < v[i]) - 1

\* (p >= 0.5).astype(int)
Umbral(p) == IF 2 * p >= PUnits THEN 1 ELSE 0

\* str(c), kept apart from the category values
Str(c) == [str |-> TRUE, valor |-> c]

Original(v) == [str |-> FALSE, valor |-> v]

\* class_mapping.get(c, str(c))
Etiqueta(class_mapping, c) ==
    IF c \in DOMAIN class_mapping THEN Original(class_mapping[c]) ELSE Str(c)

\* f"prob_{cat}"
ProbCol(cat) == "prob_" \o ToString(cat)

\* df_out[name] = vals
AddCol(t, name, vals) ==
    LET cols == t.columns
        rows == t.rows
    IN  [columns |-> IF name \in Range(cols) THEN cols ELSE Append(cols, name),
         rows |-> [i \in DOMAIN rows |->
                      LET row == rows[i]
                      IN  [c \in DOMAIN row \cup {name} |->
                              IF c = name THEN vals[i] ELSE row[c]]]]

RECURSIVE AddProbCols(_, _, _, _)
\* for idx, cat in class_mapping.items(): df_out[f"prob_{cat}"] = y_proba[:, idx]
\* from entry idx on
AddProbCols(t, class_mapping, proba, idx) ==
    IF idx \notin DOMAIN class_mapping THEN t
    ELSE LET t1 == AddCol(t, ProbCol(class_mapping[idx]),
                          [i \in DOMAIN proba |-> proba[i][idx + 1]])
         IN  AddProbCols(t1, class_mapping, proba, idx + 1)

\* y_proba[:, idx] raises IndexError for an idx beyond the output width
ProbColsFalla(class_mapping, width) ==
    \E idx \in DOMAIN class_mapping : idx >= width

\* the binary branch: y_proba.shape[1] == 1
DfOutBinario(t, class_mapping, proba) ==
    LET y_pred_class == [i \in DOMAIN proba |-> Umbral(proba[i][1])]
        y_pred_label == [i \in DOMAIN proba |->
                            Etiqueta(class_mapping, y_pred_class[i])]
        t1 == AddCol(t, "clase_predicha_cod", y_pred_class)
        t2 == AddCol(t1, "clase_predicha", y_pred_label)
    IN  AddCol(t2, "prob_clase_positiva",
               [i \in DOMAIN proba |-> proba[i][1]])

\* the multi-class branch
DfOutMulti(t, class_mapping, proba) ==
    LET y_pred_class == [i \in DOMAIN proba |-> ArgMax(proba[i])]
        y_pred_label == [i \in DOMAIN proba |->
                            Etiqueta(class_mapping, y_pred_class[i])]
        t1 == AddCol(t, "clase_predicha_cod", y_pred_class)
        t2 == AddCol(t1, "clase_predicha", y_pred_label)
    IN  AddProbCols(t2, class_mapping, proba, 0)

\* predecir_escenarios up to model.predict: the scenario table and its
\* transform by the fitted preprocessor; error names the exception raised
PredecirEntrada(info_modelo, predictors, escenarios_dict) ==
    IF ConstruirDfFalla(predictors, escenarios_dict)
    THEN [error |-> "KeyError", df_esc |-> NoTabla,
          preprocessor |-> info_modelo.preprocessor, X_esc_proc |-> <<>>]
    ELSE LET esc == construir_df_escenarios(predictors, escenarios_dict)
             X_esc == [i \in DOMAIN esc.rows |->
                          [c \in Range(predictors) |-> esc.rows[i][c]]]
             tr == PreprocessorTransform(info_modelo.preprocessor, X_esc)
         IN  [error |-> "", df_esc |-> esc, preprocessor |-> tr.prep,
              X_esc_proc |-> tr.X_proc]

\* predecir_escenarios from the output y_proba of model.predict to df_out
PredecirSalida(df_esc_in, class_mapping, proba, width) ==
    IF width # 1 /\ ProbColsFalla(class_mapping, width)
    THEN [error |-> "IndexError", df_out |-> NoTabla]
    ELSE [error |-> "",
          df_out |-> IF width = 1
                     THEN DfOutBinario(df_esc_in, class_mapping, proba)
                     ELSE DfOutMulti(df_esc_in, class_mapping, proba)]

---------------------------------------------------------------------------
(* The script as a state machine *)

Init ==
    /\ existe \in [Rutas -> BOOLEAN]
    /\ \E t \in Tablas :
          contenido = [r \in Rutas |->
                          IF ~existe[r] THEN NoTabla
                          ELSE IF r = ruta_sample_csv THEN Muestra(t) ELSE t]
    /\ ruta_model_csv = ""
    /\ df = NoTabla
    /\ pc = "inicio"
    /\ modelo = 0
    /\ loc = NoLoc
    /\ info = NoInfo
    /\ predictors_arg = <<>>
    /\ escenarios = <<>>
    /\ df_esc = NoTabla
    /\ y_proba = <<>>
    /\ df_out = NoTabla
    /\ artifacts = {}
    /\ prep_fits = [m \in Modelos |-> 0]
    /\ clf_fits = [m \in Modelos |-> 0]
    /\ err = NoError

\* an uncaught exception ends the process
Abortar(e) ==
    /\ pc' = "abortado"
    /\ err' = e
    /\ loc' = NoLoc
    /\ info' = NoInfo
    /\ df_esc' = NoTabla
    /\ y_proba' = <<>>
    /\ df_out' = NoTabla

\* lines 60-66: one of the two files exists
CargaResuelve ==
    /\ pc = "inicio"
    /\ ResolverRuta(existe) # ""
    /\ ruta_model_csv' = ResolverRuta(existe)
    /\ pc' = "read_csv"
    /\ UNCHANGED <<existe, contenido, df, modelo, loc, info, predictors_arg,
                   escenarios, df_esc, y_proba, df_out, artifacts, prep_fits, clf_fits,
                   err>>

\* lines 67-72: neither file exists
CargaFalla ==
    /\ pc = "inicio"
    /\ ResolverRuta(existe) = ""
    /\ Abortar(Raise("FileNotFoundError", "load", MensajeSinDataset, 0))
    /\ UNCHANGED <<existe, contenido, ruta_model_csv, df, modelo,
                   predictors_arg, escenarios, artifacts, prep_fits, clf_fits>>

\* line 74, then the call of entrenar_modelo_nn for NN1
LeeCsv ==
    /\ pc = "read_csv"
    /\ df' = contenido[ruta_model_csv]
    /\ modelo' = 1
    /\ pc' = "entrenar"
    /\ UNCHANGED <<existe, contenido, ruta_model_csv, loc, info,
                   predictors_arg, escenarios, df_esc, y_proba, df_out, artifacts,
                   prep_fits, clf_fits, err>>

\* lines 171-178: a required column is not in the dataset
EntrenarColumnasFaltan ==
    /\ pc = "entrenar"
    /\ Faltantes(df, modelo) # <<>>
    /\ Abortar(Raise("ValueError", "columnas", Faltantes(df, modelo), modelo))
    /\ UNCHANGED <<existe, contenido, ruta_model_csv, df, modelo,
                   predictors_arg, escenarios, artifacts, prep_fits, clf_fits>>

\* lines 180-202: train_test_split raises
EntrenarSplitFalla ==
    /\ pc = "entrenar"
    /\ Faltantes(df, modelo) = <<>>
    /\ SplitFalla(YDe(df, modelo))
    /\ Abortar(Raise("ValueError", "train_test_split", <<>>, modelo))
    /\ UNCHANGED <<existe, contenido, ruta_model_csv, df, modelo,
                   predictors_arg, escenarios, artifacts, prep_fits, clf_fits>>

\* lines 180-205: subset, dropna, target encoding and the stratified split
EntrenarSplit ==
    /\ pc = "entrenar"
    /\ Faltantes(df, modelo) = <<>>
    /\ ~SplitFalla(YDe(df, modelo))
    /\ \E sp \in Splits(YDe(df, modelo)) :
          loc' = LocTrasSplit(df, modelo, sp)
    /\ pc' = "preprocesa"
    /\ UNCHANGED <<existe, contenido, ruta_model_csv, df, modelo, info,
                   predictors_arg, escenarios, df_esc, y_proba, df_out, artifacts,
                   prep_fits, clf_fits, err>>

\* lines 207-230: preprocessor fit on train, transform of test, model build
EntrenarPreprocesa ==
    /\ pc = "preprocesa"
    /\ loc' = LocTrasPreproceso(df, modelo, loc)
    /\ prep_fits' = [prep_fits EXCEPT ![modelo] = @ + loc'.preprocessor.n_fits]
    /\ pc' = "fit"
    /\ UNCHANGED <<existe, contenido, ruta_model_csv, df, modelo, info,
                   predictors_arg, escenarios, df_esc, y_proba, df_out, artifacts,
                   clf_fits, err>>

\* lines 234-241: model.fit cannot carve out the validation samples
EntrenarFitFalla ==
    /\ pc = "fit"
    /\ ValidationSplitFalla(Cardinality(loc.train))
    /\ Abortar(Raise("ValueError", "model.fit", <<>>, modelo))
    /\ UNCHANGED <<existe, contenido, ruta_model_csv, df, modelo,
                   predictors_arg, escenarios, artifacts, prep_fits, clf_fits>>

\* lines 234-248: model.fit and model.evaluate
EntrenarFit ==
    /\ pc = "fit"
    /\ ~ValidationSplitFalla(Cardinality(loc.train))
    /\ clf_fits' = [clf_fits EXCEPT ![modelo] = @ + 1]
    /\ pc' = "savefig_accuracy"
    /\ UNCHANGED <<existe, contenido, ruta_model_csv, df, modelo, loc, info,
                   predictors_arg, escenarios, df_esc, y_proba, df_out, artifacts,
                   prep_fits, err>>

\* the model file written first and the accuracy curve third
ArchivoEnModeloPrimero(m, p) ==
    CASE p = "savefig_accuracy" -> ArchivosDe(m)[3]
      [] p = "savefig_loss" -> ArchivosDe(m)[2]
      [] p = "model_save" -> ArchivosDe(m)[1]
      [] p = "to_csv" -> ArchivosDe(m)[4]

\* the file the write at position p creates
ArchivoEn(m, p) ==
    CASE p = "savefig_accuracy" -> ArchivosDe(m)[1]
      [] p = "savefig_loss" -> ArchivosDe(m)[2]
      [] p = "model_save" -> ArchivosDe(m)[3]
      [] p = "to_csv" -> ArchivosDe(m)[4]

\* lines 253-263: the accuracy curve
GuardaAccuracy ==
    /\ pc = "savefig_accuracy"
    /\ artifacts' = artifacts \cup {ArchivoEn(modelo, pc)}
    /\ pc' = "savefig_loss"
    /\ UNCHANGED <<existe, contenido, ruta_model_csv, df, modelo, loc, info,
                   predictors_arg, escenarios, df_esc, y_proba, df_out, prep_fits,
                   clf_fits, err>>

\* lines 266-276: the loss curve
GuardaLoss ==
    /\ pc = "savefig_loss"
    /\ artifacts' = artifacts \cup {ArchivoEn(modelo, pc)}
    /\ pc' = "model_save"
    /\ UNCHANGED <<existe, contenido, ruta_model_csv, df, modelo, loc, info,
                   predictors_arg, escenarios, df_esc, y_proba, df_out, prep_fits,
                   clf_fits, err>>

\* lines 283-296: the model file, and the return of entrenar_modelo_nn
GuardaModelo ==
    /\ pc = "model_save"
    /\ artifacts' = artifacts \cup {ArchivoEn(modelo, pc)}
    /\ info' = InfoDe(loc)
    /\ loc' = NoLoc
    /\ pc' = "escenarios"
    /\ UNCHANGED <<existe, contenido, ruta_model_csv, df, modelo,
                   predictors_arg, escenarios, df_esc, y_proba, df_out, prep_fits,
                   clf_fits, err>>

\* plt.savefig, model.save or to_csv raises (the disk is full, the directory
\* is gone): nothing is written and the run ends
EscrituraFalla ==
    /\ pc \in {"savefig_accuracy", "savefig_loss", "model_save", "to_csv"}
    /\ Abortar(Raise("OSError", pc, <<ArchivoEn(modelo, pc)>>, modelo))
    /\ UNCHANGED <<existe, contenido, ruta_model_csv, df, modelo,
                   predictors_arg, escenarios, artifacts, prep_fits, clf_fits>>

\* the dict literal escenarios_nnX indexes a category that does not exist
EscenariosIndexError ==
    /\ pc = "escenarios"
    /\ EscenariosFalla(df, modelo)
    /\ Abortar(Raise("IndexError", "escenarios", <<>>, modelo))
    /\ UNCHANGED <<existe, contenido, ruta_model_csv, df, modelo,
                   predictors_arg, escenarios, artifacts, prep_fits, clf_fits>>

\* the dict literal escenarios_nnX, and the call of predecir_escenarios
ConstruyeEscenarios ==
    /\ pc = "escenarios"
    /\ ~EscenariosFalla(df, modelo)
    /\ escenarios' = EscenariosDe(df, modelo)
    /\ predictors_arg' = Config[modelo].predictors
    /\ pc' = "predecir"
    /\ UNCHANGED <<existe, contenido, ruta_model_csv, df, modelo, loc, info,
                   df_esc, y_proba, df_out, artifacts, prep_fits, clf_fits, err>>

\* lines 331-375: predecir_escenarios up to the export
PredecirEscenarios ==
    /\ pc = "predecir"
    /\ \E e \in {PredecirEntrada(info, predictors_arg, escenarios)} :
          IF e.error # ""
          THEN /\ Abortar(Raise(e.error, "predecir_escenarios", <<>>, modelo))
               /\ UNCHANGED prep_fits
          ELSE \E yp \in [DOMAIN escenarios -> Salidas(info.model)] :
               \E s \in {PredecirSalida(e.df_esc, info.class_mapping,
                                        yp, info.model.units)} :
                  /\ prep_fits' = [prep_fits EXCEPT ![modelo] =
                         @ + e.preprocessor.n_fits - info.preprocessor.n_fits]
                  /\ IF s.error # ""
                     THEN Abortar(Raise(s.error, "predecir_escenarios",
                                        <<>>, modelo))
                     ELSE /\ df_esc' = e.df_esc
                          /\ y_proba' = yp
                          /\ df_out' = s.df_out
                          /\ info' = [info EXCEPT
                                         !.preprocessor = e.preprocessor]
                          /\ pc' = "to_csv"
                          /\ UNCHANGED <<loc, err>>
    /\ UNCHANGED <<existe, contenido, ruta_model_csv, df, modelo,
                   predictors_arg, escenarios, artifacts, clf_fits>>

\* lines 377-379: the export, the return, and the next model of the driver
ExportaCsv ==
    /\ pc = "to_csv"
    /\ artifacts' = artifacts \cup {ArchivoEn(modelo, pc)}
    /\ df_esc' = NoTabla
    /\ y_proba' = <<>>
    /\ df_out' = NoTabla
    /\ info' = NoInfo
    /\ IF modelo < Len(Config)
       THEN modelo' = modelo + 1 /\ pc' = "entrenar"
       ELSE modelo' = modelo /\ pc' = "fin"
    /\ UNCHANGED <<existe, contenido, ruta_model_csv, df, loc,
                   predictors_arg, escenarios, prep_fits, clf_fits, err>>

Next ==
    \/ CargaResuelve
    \/ CargaFalla
    \/ LeeCsv
    \/ EntrenarColumnasFaltan
    \/ EntrenarSplitFalla
    \/ EntrenarSplit
    \/ EntrenarPreprocesa
    \/ EntrenarFitFalla
    \/ EntrenarFit
    \/ GuardaAccuracy
    \/ GuardaLoss
    \/ GuardaModelo
    \/ EscrituraFalla
    \/ EscenariosIndexError
    \/ ConstruyeEscenarios
    \/ PredecirEscenarios
    \/ ExportaCsv

Spec == Init /\ [][Next]_vars

---------------------------------------------------------------------------
(* construir_df_escenarios on its own, over bounded arguments *)

\* predictor lists: no name twice
PredictoresEsc ==
    {<<>>, <<"AREA">>, <<"n_personas">>, <<"AREA", "n_personas">>,
     <<"n_personas", "AREA">>}

\* keys a scenario may hold: predictors and a name that is no predictor
ClavesEsc == {"AREA", "n_personas", "otra_columna"}

NombreEsc(j) == "esc_" \o ToString(j)

\* the value scenario j gives key c
ValorEsc(j, c) == 10 * j + (CASE c = "AREA" -> 1 [] c = "n_personas" -> 2 [] OTHER -> 3)

\* dicts of at most MaxEsc scenarios, in every insertion order, each scenario
\* with any subset of the keys
DictsEsc ==
    {[i \in DOMAIN orden |->
         Esc(NombreEsc(orden[i]), [c \in claves[i] |-> ValorEsc(orden[i], c)])] :
        <<orden, claves>> \in
            {oc \in UNION {[1..n -> 1..MaxEsc] \X [1..n -> SUBSET ClavesEsc] :
                              n \in 0..MaxEsc} :
                \A i, j \in DOMAIN oc[1] : i # j => oc[1][i] # oc[1][j]}}

InitEsc ==
    /\ existe = [r \in Rutas |-> FALSE]
    /\ contenido = [r \in Rutas |-> NoTabla]
    /\ ruta_model_csv = ""
    /\ df = NoTabla
    /\ pc = "construir_df_escenarios"
    /\ modelo = 0
    /\ loc = NoLoc
    /\ info = NoInfo
    /\ predictors_arg \in PredictoresEsc
    /\ escenarios \in DictsEsc
    /\ df_esc = NoTabla
    /\ y_proba = <<>>
    /\ df_out = NoTabla
    /\ artifacts = {}
    /\ prep_fits = [m \in Modelos |-> 0]
    /\ clf_fits = [m \in Modelos |-> 0]
    /\ err = NoError

\* lines 309-316: the table is returned
ConstruirDfRetorna ==
    /\ pc = "construir_df_escenarios"
    /\ ~ConstruirDfFalla(predictors_arg, escenarios)
    /\ df_esc' = construir_df_escenarios(predictors_arg, escenarios)
    /\ pc' = "retorno"
    /\ UNCHANGED <<existe, contenido, ruta_model_csv, df, modelo, loc, info,
                   predictors_arg, escenarios, y_proba, df_out, artifacts, prep_fits,
                   clf_fits, err>>

\* line 316: df_esc[cols] raises
ConstruirDfKeyError ==
    /\ pc = "construir_df_escenarios"
    /\ ConstruirDfFalla(predictors_arg, escenarios)
    /\ Abortar(Raise("KeyError", "construir_df_escenarios",
                     <<"escenario">> \o predictors_arg, 0))
    /\ UNCHANGED <<existe, contenido, ruta_model_csv, df, modelo,
                   predictors_arg, escenarios, artifacts, prep_fits, clf_fits>>

NextEsc == ConstruirDfRetorna \/ ConstruirDfKeyError

SpecEsc == InitEsc /\ [][NextEsc]_vars

---------------------------------------------------------------------------
(* Properties of the script *)

\* the rows of df complete in the target and the predictors of model m
FilasCompletas(m) ==
    {i \in DOMAIN df.rows :
        \A c \in {Config[m].target_col} \cup Range(Config[m].predictors) :
            df.rows[i][c] # NaN}

\* the distinct target values of the complete rows of model m
ValoresObjetivo(m) == {df.rows[i][Config[m].target_col] : i \in FilasCompletas(m)}

\* the positions at which the locals of entrenar_modelo_nn are alive
TrasSplit ==
    pc \in {"preprocesa", "fit", "savefig_accuracy", "savefig_loss", "model_save"}

\* the columns predecir_escenarios added after the two class columns
ColumnasProb ==
    SelectSeq(df_out.columns,
              LAMBDA c : c \notin Range(df_esc.columns)
                                  \cup {"clase_predicha_cod", "clase_predicha"})

HeadMatches(model) ==
    /\ model.n_classes = 2 => model.units = 1 /\ model.activation = "sigmoid"
    /\ model.n_classes > 2 =>
          model.units = model.n_classes /\ model.activation = "softmax"

\* C1: a target with exactly 2 distinct values gets a single-unit sigmoid
\* head, a target with more than 2 a softmax head of exactly n_classes units,
\* and the exported table has one probability column for a binary head and
\* one probability column per class for a multi-class head.
C1_HeadAndSchemaMatchClassCount ==
    LET K == Cardinality(ValoresObjetivo(modelo))
    IN  /\ pc \in {"fit", "savefig_accuracy", "savefig_loss", "model_save"} =>
              /\ HeadMatches(loc.model)
              /\ K >= 2 => loc.model.n_classes = K
        /\ pc \in {"escenarios", "predecir", "to_csv"} =>
              /\ HeadMatches(info.model)
              /\ K >= 2 => info.model.n_classes = K
        /\ pc = "to_csv" =>
              /\ K = 2 => ColumnasProb = <<"prob_clase_positiva">>
              /\ K > 2 =>
                    /\ Len(ColumnasProb) = K
                    /\ Range(ColumnasProb) =
                           {ProbCol(v) : v \in ValoresObjetivo(modelo)}

\* both branches in one run: NN1 was exported with a 3-class target and NN3
\* is about to be exported with a binary head
C1_Witness ==
    /\ pc = "to_csv"
    /\ modelo = 3
    /\ Cardinality(ValoresObjetivo(1)) = 3
    /\ "nn1_indice_calidad_vivienda_cat_predicciones_escenarios.csv" \in artifacts
    /\ Cardinality(ValoresObjetivo(3)) = 2
    /\ info.model.units = 1
    /\ info.model.activation = "sigmoid"
    /\ ColumnasProb = <<"prob_clase_positiva">>

\* C2: for an output of width > 1 the class code of every scenario row is an
\* index of the largest entry of its output vector, the label is the value of
\* class_mapping for that code, and the table has exactly one probability
\* column per class of class_mapping, named prob_<label>, in code order,
\* holding that class's probability.
C2_MultiClassDecode ==
    (pc = "to_csv" /\ info.model.units > 1) =>
        /\ ColumnasProb =
               [c \in 1..Cardinality(DOMAIN info.class_mapping) |->
                   ProbCol(info.class_mapping[c - 1])]
        /\ \A i \in DOMAIN df_out.rows :
              LET fila == df_out.rows[i]
                  cod == fila["clase_predicha_cod"]
              IN  /\ cod \in 0..(info.model.units - 1)
                  /\ \A j \in DOMAIN y_proba[i] :
                        y_proba[i][j] <= y_proba[i][cod + 1]
                  /\ cod \in DOMAIN info.class_mapping
                  /\ fila["clase_predicha"] = Original(info.class_mapping[cod])
                  /\ \A c \in DOMAIN info.class_mapping :
                        fila[ProbCol(info.class_mapping[c])] = y_proba[i][c + 1]

\* a 3-class output whose middle entry is the strict maximum is decoded to
\* code 1 and the middle label
C2_Witness ==
    /\ pc = "to_csv"
    /\ info.model.units = 3
    /\ \E i \in DOMAIN df_out.rows :
          /\ y_proba[i][2] > y_proba[i][1]
          /\ y_proba[i][2] > y_proba[i][3]
          /\ df_out.rows[i]["clase_predicha_cod"] = 1
          /\ df_out.rows[i]["clase_predicha"] = Original(info.class_mapping[1])
          /\ df_out.rows[i][ProbCol(info.class_mapping[1])] = y_proba[i][2]

\* C3: for an output of width 1 the class code of every scenario row is 1 if
\* p >= 0.5 and 0 otherwise, the label is the value of class_mapping for that
\* code, and exactly one probability column is reported, holding p.
C3_BinaryDecode ==
    (pc = "to_csv" /\ info.model.units = 1) =>
        /\ ColumnasProb = <<"prob_clase_positiva">>
        /\ \A i \in DOMAIN df_out.rows :
              LET fila == df_out.rows[i]
                  p == y_proba[i][1]
                  cod == fila["clase_predicha_cod"]
              IN  /\ cod = (IF 2 * p >= PUnits THEN 1 ELSE 0)
                  /\ cod \in DOMAIN info.class_mapping
                  /\ fila["clase_predicha"] = Original(info.class_mapping[cod])
                  /\ fila["prob_clase_positiva"] = p

\* C4: after the filter, decoding the code of every kept row through
\* class_mapping gives the row's target value, the codes are exactly 0..K-1
\* with K the number of distinct target values of the kept rows, and
\* class_mapping is a bijection from 0..K-1 onto those values.
C4_LabelRoundTrip ==
    TrasSplit =>
        LET K == Cardinality(ValoresObjetivo(modelo))
        IN  /\ loc.data_sub = FilasCompletas(modelo)
            /\ DOMAIN loc.y = loc.data_sub
            /\ \A i \in loc.data_sub :
                  /\ loc.y[i] \in DOMAIN loc.class_mapping
                  /\ loc.class_mapping[loc.y[i]] =
                         df.rows[i][Config[modelo].target_col]
            /\ {loc.y[i] : i \in loc.data_sub} = 0..(K - 1)
            /\ DOMAIN loc.class_mapping = 0..(K - 1)
            /\ \A a, b \in DOMAIN loc.class_mapping :
                  loc.class_mapping[a] = loc.class_mapping[b] => a = b
            /\ {loc.class_mapping[a] : a \in DOMAIN loc.class_mapping} =
                   ValoresObjetivo(modelo)

\* three target values are encoded, and a row of the largest one decodes to
\* its own value
C4_Witness ==
    /\ pc = "preprocesa"
    /\ Cardinality(DOMAIN loc.class_mapping) = 3
    /\ \E i \in loc.data_sub :
          /\ loc.y[i] = 2
          /\ loc.class_mapping[2] = df.rows[i][Config[modelo].target_col]
          /\ \A j \in loc.data_sub :
                df.rows[j][Config[modelo].target_col]
                    <= df.rows[i][Config[modelo].target_col]

\* the scaling parameters and the vocabulary learned from the rows ids of df
AjusteSobre(ids, m) ==
    [scaler |-> [j \in DOMAIN Config[m].numeric_features |->
                    ScalerFit(ColumnaDe(XDe(df, ids, Config[m].predictors),
                                        Config[m].numeric_features[j]))],
     categories |-> [j \in DOMAIN Config[m].categorical_features |->
                        OneHotFit(ColumnaDe(XDe(df, ids, Config[m].predictors),
                                            Config[m].categorical_features[j]))]]

ParametrosDe(prep) == [scaler |-> prep.scaler, categories |-> prep.categories]

C5_Paso ==
    /\ \A m \in Modelos : prep_fits'[m] <= 1
    /\ pc' \in {"fit", "savefig_accuracy", "savefig_loss", "model_save"} =>
          /\ prep_fits'[modelo'] = 1
          /\ loc'.preprocessor.n_fits = 1
          /\ ParametrosDe(loc'.preprocessor) = AjusteSobre(loc'.train, modelo')
    /\ pc' \in {"escenarios", "predecir", "to_csv"} =>
          /\ prep_fits'[modelo'] = 1
          /\ info'.preprocessor.n_fits = 1
          /\ pc = "model_save" => info'.preprocessor = loc.preprocessor
          /\ pc # "model_save" => info'.preprocessor = info.preprocessor

\* C5: the preprocessor of a model is fitted exactly once, its learned scaling
\* parameters and vocabulary are those of the training rows, and neither the
\* transform of the test rows nor the transform of the scenario rows changes
\* it: the preprocessor that transforms is the same object before and after,
\* and a transform is a function of that object and the rows alone.
C5_PreprocessorFittedOnceOnTrain == [][C5_Paso]_vars

\* the scenario rows were transformed, after the test rows, by a preprocessor
\* fitted once on a train split that leaves rows out
C5_Witness ==
    /\ pc = "to_csv"
    /\ prep_fits[modelo] = 1
    /\ info.preprocessor.n_fits = 1
    /\ info.preprocessor.scaler # <<>>
    /\ info.preprocessor.scaler[1].n < Cardinality(FilasCompletas(modelo))

\* the file name endings of the artifacts of a pipeline, in the order the
\* source writes them
SufijosArtefactos ==
    <<"_accuracy.png", "_loss.png", "_model.keras",
      "_predicciones_escenarios.csv">>

\* the positions of the artifacts of model m that are written
Escritos(m) ==
    {j \in DOMAIN SufijosArtefactos :
        (Config[m].model_id \o SufijosArtefactos[j]) \in artifacts}

\* C6 as stated: a run that ends has written, for every model, all of its
\* artifacts or none of them.
C6_AllOrNothing ==
    pc \in {"fin", "abortado"} =>
        \A m \in Modelos : Escritos(m) \in {{}, DOMAIN SufijosArtefactos}

\* C6 amended: the artifacts of a model are written in the order accuracy
\* curve, loss curve, model file, predictions table, so those written are
\* always a prefix of that order; a failure up to the fit of a model leaves
\* none of that model's artifacts written, a completed pipeline has written
\* all four, and a failure in between leaves exactly those written before the
\* failing step.
C6_ArtifactsArePrefix ==
    /\ \A m \in Modelos :
          /\ \E j \in 0..Len(SufijosArtefactos) : Escritos(m) = 1..j
          /\ m < modelo => Escritos(m) = DOMAIN SufijosArtefactos
          /\ m > modelo => Escritos(m) = {}
    /\ pc = "fin" => \A m \in Modelos : Escritos(m) = DOMAIN SufijosArtefactos
    /\ pc \in {"entrenar", "preprocesa", "fit", "savefig_accuracy"} =>
          Escritos(modelo) = {}
    /\ pc = "abortado" =>
          /\ err.donde \in {"load", "columnas", "train_test_split", "model.fit",
                            "savefig_accuracy"} =>
                \A m \in Modelos : m >= err.modelo => Escritos(m) = {}
          /\ err.donde = "savefig_loss" => Escritos(err.modelo) = 1..1
          /\ err.donde = "model_save" => Escritos(err.modelo) = 1..2
          /\ err.donde \in {"escenarios", "predecir_escenarios", "to_csv"} =>
                Escritos(err.modelo) = 1..3

\* NN3 fails while its scenario dict is built, after its two curves and its
\* model file were written and with NN1 and NN2 complete
C6_Witness ==
    /\ pc = "abortado"
    /\ err.tipo = "IndexError"
    /\ err.modelo = 3
    /\ Escritos(3) = 1..3
    /\ Escritos(1) = 1..4
    /\ Escritos(2) = 1..4

\* the columns model m needs that df lacks, in the order of cols_necesarias
ColumnasAusentes(m) ==
    SelectSeq(<<Config[m].target_col>> \o Config[m].predictors,
              LAMBDA c : c \notin Range(df.columns))

\* C7 as stated: a missing column ends the run with an error naming the
\* missing columns before any preprocessor or classifier fit of any model.
C7_NoFitOfAnyModelBeforeError ==
    (pc = "abortado" /\ err.donde = "columnas") =>
        /\ err.tipo = "ValueError"
        /\ err.nombres = ColumnasAusentes(err.modelo)
        /\ \A m \in Modelos : prep_fits[m] = 0 /\ clf_fits[m] = 0

\* C7 amended: no pipeline goes past its column check with a column missing;
\* the error ends the run, names exactly the missing columns of the model
\* whose check failed, and precedes every fit and every artifact of that
\* model and of the models after it, while each model before it has been
\* fitted once and has written its artifacts.
C7_NoFitOfFailingOrLaterModel ==
    /\ pc \notin {"inicio", "read_csv", "entrenar", "abortado", "fin"} =>
          ColumnasAusentes(modelo) = <<>>
    /\ (pc = "abortado" /\ err.donde = "columnas") =>
          /\ err.tipo = "ValueError"
          /\ err.nombres # <<>>
          /\ err.nombres = ColumnasAusentes(err.modelo)
          /\ \A m \in Modelos :
                /\ m >= err.modelo =>
                      prep_fits[m] = 0 /\ clf_fits[m] = 0 /\ Escritos(m) = {}
                /\ m < err.modelo =>
                      /\ prep_fits[m] = 1 /\ clf_fits[m] = 1
                      /\ Escritos(m) = DOMAIN SufijosArtefactos
                      /\ ColumnasAusentes(m) = <<>>

\* NN2 lacks two columns and reports both, after NN1 was trained and exported
C7_Witness ==
    /\ pc = "abortado"
    /\ err.donde = "columnas"
    /\ err.modelo = 2
    /\ err.nombres = <<"indice_calidad_vivienda", "n_personas">>
    /\ prep_fits[1] = 1
    /\ clf_fits[1] = 1

\* C8: every row of df with a missing value in the target or a predictor of
\* the model is in neither split and in none of the reported counts; every
\* other row is in exactly one of the two splits.
C8_IncompleteRowsExcluded ==
    TrasSplit =>
        LET incompleta(i) ==
                \E c \in {Config[modelo].target_col}
                             \cup Range(Config[modelo].predictors) :
                    df.rows[i][c] = NaN
            completas == {i \in DOMAIN df.rows : ~incompleta(i)}
        IN  /\ \A i \in DOMAIN df.rows :
                  incompleta(i) => i \notin loc.train /\ i \notin loc.test
            /\ \A i \in completas : (i \in loc.train) # (i \in loc.test)
            /\ loc.train \cup loc.test \subseteq DOMAIN df.rows
            /\ loc.reportado.completas = Cardinality(completas)
            /\ loc.reportado.entrenamiento = Cardinality(loc.train)
            /\ loc.reportado.prueba = Cardinality(loc.test)
            /\ loc.reportado.entrenamiento + loc.reportado.prueba
                   = Cardinality(completas)

\* a row complete in the target and missing a predictor is left out, and both
\* splits hold rows
C8_Witness ==
    /\ pc = "preprocesa"
    /\ loc.train # {}
    /\ loc.test # {}
    /\ \E i \in DOMAIN df.rows :
          /\ df.rows[i][Config[modelo].target_col] # NaN
          /\ \E c \in Range(Config[modelo].predictors) : df.rows[i][c] = NaN
          /\ i \notin loc.train \cup loc.test
          /\ loc.reportado.completas = Len(df.rows) - 1

\* the table the claim describes for the arguments of the call
TablaEsperada ==
    /\ df_esc.columns = <<"escenario">> \o predictors_arg
    /\ Len(df_esc.rows) = Len(escenarios)
    /\ \A i \in DOMAIN escenarios :
          /\ DOMAIN df_esc.rows[i] = {"escenario"} \cup Range(predictors_arg)
          /\ df_esc.rows[i]["escenario"] = escenarios[i].nombre
          /\ \A p \in Range(predictors_arg) :
                df_esc.rows[i][p] =
                    IF p \in DOMAIN escenarios[i].valores
                    THEN escenarios[i].valores[p]
                    ELSE NaN

C10_PathResolution ==
    pc # "inicio" =>
        /\ existe[ruta_sample_csv] => ruta_model_csv = ruta_sample_csv
        /\ (~existe[ruta_sample_csv] /\ existe[ruta_full_csv]) =>
              ruta_model_csv = ruta_full_csv
        /\ ruta_model_csv = ruta_full_csv => ~existe[ruta_sample_csv]
        /\ (pc \notin {"read_csv", "abortado"} \/ err.donde \notin {"", "load"}) =>
              df = contenido[ruta_model_csv]
        /\ (~existe[ruta_sample_csv] /\ ~existe[ruta_full_csv]) =>
              /\ pc = "abortado"
              /\ err.tipo = "FileNotFoundError"
              /\ {"modeling_dataset_sample.csv", "modeling_dataset.csv",
                  "06_preparacion_modelado.R"} \subseteq Range(err.nombres)
              /\ ruta_model_csv = ""
              /\ df = NoTabla
              /\ artifacts = {}
              /\ \A m \in Modelos : prep_fits[m] = 0 /\ clf_fits[m] = 0

\* both files exist with different contents and the sampled one was read
C10_Witness ==
    /\ pc = "entrenar"
    /\ existe[ruta_sample_csv]
    /\ existe[ruta_full_csv]
    /\ contenido[ruta_sample_csv] # contenido[ruta_full_csv]
    /\ ruta_model_csv = ruta_sample_csv
    /\ df = contenido[ruta_sample_csv]

\* C11: after a successful stratified split every code of class_mapping is
\* present in the train split, so the class count the classifier is built
\* with equals the number K of entries of class_mapping; a multi-class output
\* then has a column for every code of class_mapping and the loop over its
\* items never indexes past the output.
C11_TrainHoldsEveryClass ==
    /\ TrasSplit =>
          {loc.y[i] : i \in loc.train} = DOMAIN loc.class_mapping
    /\ pc \in {"fit", "savefig_accuracy", "savefig_loss", "model_save"} =>
          /\ loc.model.n_classes = Cardinality({loc.y[i] : i \in loc.train})
          /\ loc.model.n_classes = Cardinality(DOMAIN loc.class_mapping)
    /\ pc \in {"escenarios", "predecir", "to_csv"} =>
          /\ info.model.n_classes = Cardinality(DOMAIN info.class_mapping)
          /\ info.model.units > 1 =>
                \A idx \in DOMAIN info.class_mapping :
                    idx \in 0..(info.model.units - 1)
    /\ (pc = "to_csv" /\ info.model.units > 1) =>
          \A i \in DOMAIN y_proba :
              DOMAIN y_proba[i] = {idx + 1 : idx \in DOMAIN info.class_mapping}
    /\ pc = "abortado" =>
          ~(err.donde = "predecir_escenarios" /\ err.tipo = "IndexError")

\* a 3-class model was built from a train split that leaves rows to the test
\* split and holds a single row of one of the classes
C11_Witness ==
    /\ pc = "fit"
    /\ loc.model.n_classes = 3
    /\ loc.test # {}
    /\ \E c \in DOMAIN loc.class_mapping :
          /\ Cardinality({i \in loc.train : loc.y[i] = c}) = 1
          /\ Cardinality({i \in loc.test : loc.y[i] = c}) >= 1

\* C12: for every model entrenar_modelo_nn returns and every scenario row the
\* class code of the exported table is a key of class_mapping and the label is
\* the category stored for that key, never the fallback str(code).
C12_FallbackLabelNeverReported ==
    pc = "to_csv" =>
        \A i \in DOMAIN df_out.rows :
            LET fila == df_out.rows[i]
            IN  /\ fila["clase_predicha_cod"] \in DOMAIN info.class_mapping
                /\ fila["clase_predicha"].str = FALSE
                /\ fila["clase_predicha"].valor =
                       info.class_mapping[fila["clase_predicha_cod"]]

====
